---- MODULE Spec2Model ----
(***************************************************************************)
(* The readiness-driven playback loop of alsa2.c: the staging buffer and   *)
(* its pending cursor, the generator's phase accumulator, and the device   *)
(* session calls (state, avail_update, writei, prepare, resume) with the   *)
(* fault handling at each call site.  The device session and the readiness *)
(* wait are external: every value they can return is drawn from a small    *)
(* set.  Variables below the "history" line record what the loop did; the  *)
(* program does not read them.                                             *)
(***************************************************************************)
EXTENDS Integers, Sequences, FiniteSets, TLC

\* ------------------------------------------------------------- bounds
\* capacity of the staging buffer, in frames (65536 in the program)
local_data_buffer_size == 4
\* negotiated sample rate (44100 requested in the program)
rate == 3
\* number of blocks the generator may produce in a run
MaxBlocks == 2
\* largest available-space value the device reports
MaxAvail == 5
\* the count of prepare calls since a detection saturates here
MaxCount == 2

\* capacity of alsa.c's buffer, in frames (65536 in the program)
data_size == 3

\* ------------------------------------------------------------- constants
EPIPE == 32
ESTRPIPE == 86
EBADFD == 77
EAGAIN == 11
ENOSYS == 38
NullPtr == -1

\* negative codes a device-session call can return
ErrCodes == {-EPIPE, -ESTRPIPE, -EBADFD}
\* snd_pcm_state values the loop distinguishes, and two it does not
PcmStates == {"RUNNING", "PREPARED", "XRUN", "SUSPENDED"}
\* snd_pcm_resume: a positive value, 0 ("not possible" to the loop), or failure
ResumeResults == {1, 0, -EAGAIN, -ENOSYS}
PrepareResults == {0} \cup ErrCodes
AvailResults == (0..MaxAvail) \cup ErrCodes
WriteResults(n) == (0..n) \cup ErrCodes

\* a staging-buffer slot that was never generated, or a read outside the buffer
Garbage == [id |-> -1, ph |-> -1]

\* ------------------------------------------------------------- generator
\* one sample: the program computes sin(phase * 2 pi f / rate); the model
\* keeps the phase it was computed from and the sample's serial number
Sample(id, ph) == [id |-> id, ph |-> ph]

\* phase += 1.0; if (phase >= rate) phase -= rate;
NextPhaseNoWrap(ph, r) == ph + 1
NextPhase(ph, r) == IF ph + 1 >= r THEN ph + 1 - r ELSE ph + 1

RECURSIVE GenLoop(_, _, _, _, _, _)
GenLoop(buffer, idx, ph, buffer_size, r, base) ==
    IF idx < buffer_size
    THEN GenLoop([buffer EXCEPT ![idx + 1] = Sample(base + idx, ph)],
                 idx + 1, NextPhase(ph, r), buffer_size, r, base)
    ELSE [buffer |-> buffer, phase |-> ph]

\* generate_data(buffer, buffer_size, rate), from the static phase ph;
\* base is the number of samples generated before this call
generate_data(buffer, buffer_size, r, ph, base) ==
    GenLoop(buffer, 0, ph, buffer_size, r, base)

\* alsa.c's generate_data: phase += 1.0, with no wrap
NextPhaseSimple(ph, r) == ph + 1

RECURSIVE GenLoopSimple(_, _, _, _, _, _)
GenLoopSimple(buffer, idx, ph, buffer_size, r, base) ==
    IF idx < buffer_size
    THEN GenLoopSimple([buffer EXCEPT ![idx + 1] = Sample(base + idx, ph)],
                       idx + 1, NextPhaseSimple(ph, r), buffer_size, r, base)
    ELSE [buffer |-> buffer, phase |-> ph]

generate_data_simple(buffer, buffer_size, r, ph, base) ==
    GenLoopSimple(buffer, 0, ph, buffer_size, r, base)

\* snd_pcm_writei(pcm_handle, data, data_len): alsa.c passes data, the start
\* of the buffer, whatever data_ptr is
SimpleWriteOffset(ptr) == 0

\* ------------------------------------------------------------- loop helpers
\* frames_to_write_this_iter = frames_available, clamped to the remaining count
FramesToWriteNoClamp(frames_available, remaining) == frames_available
FramesToWriteAllOrNothing(frames_available, remaining) ==
    IF frames_available >= remaining THEN remaining ELSE 0
FramesToWrite(frames_available, remaining) ==
    IF frames_available > remaining THEN remaining ELSE frames_available

\* local_data_ptr += ret
AdvancePtrNot(ptr, n, r) == ptr
AdvancePtrByRequest(ptr, n, r) == ptr + n
AdvancePtr(ptr, n, r) == ptr + r

\* frames_to_write_from_local_buffer -= ret
AdvanceCount(remaining, n, r) == remaining - r

\* if (frames_to_write_from_local_buffer == 0): refill
NeedsRefillAlways(remaining) == TRUE
NeedsRefill(remaining) == remaining = 0

\* if (ret < 0 || ret == 0) after snd_pcm_resume
ResumeNeedsPrepareAlways(r) == TRUE
ResumeNeedsPrepareNever(r) == FALSE
ResumeNeedsPrepare(r) == r < 0 \/ r = 0

\* classification of a negative snd_pcm_avail_update result
AvailFaultLenient(r) == IF r = -EPIPE \/ r = -EBADFD THEN "xrun" ELSE "fatal"
AvailFault(r) == IF r = -EPIPE THEN "xrun" ELSE "fatal"

\* classification of a negative snd_pcm_writei result
WriteiFault(r) == IF r = -EPIPE THEN "xrun"
                  ELSE IF r = -ESTRPIPE THEN "suspended" ELSE "fatal"

\* where `continue` of a recovery branch resumes: the top of the loop
AfterRecoveryFallThrough == "avail"
AfterRecovery == "top"

\* the frames a write of n frames reads, starting at offset ptr
FramesAt(buffer, ptr, n) ==
    [i \in 1..n |-> IF ptr + i \in DOMAIN buffer THEN buffer[ptr + i] ELSE Garbage]

\* ------------------------------------------------------------- state
VARIABLES
    pc,                                 \* position in main's loop
    local_data_buffer,                  \* the staging buffer
    local_data_ptr,                     \* offset of the next unwritten frame
    frames_to_write_from_local_buffer,  \* remaining count
    phase,                              \* generate_data's static phase
    frames_available,                   \* last snd_pcm_avail_update result
    frames_to_write_this_iter,          \* request computed this iteration
    \* ---- history
    generated,      \* every frame generated, in generation order
    accepted,       \* every frame the device accepted, in acceptance order
    written,        \* frames the loop counted as written
    calls,          \* device-session calls of the current iteration
    lastCall,       \* the most recent device-session call and its result
    fault,          \* fault classified in the current iteration
    faultSinceWait, \* a fault was classified and no wait has returned since
    snap,           \* buffer and cursor at the first fault since the last write
    iterCursor,     \* cursor when the current iteration's wait began
    availXrun,      \* prepare calls since an avail_update underrun, or -1
    lastWrite,      \* the last write call that returned a count
    lastSelect,     \* outcome of the most recent select()
    \* ---- the run
    mode,           \* "free", "scripted" (a simulated device) or "live"
    scenario,       \* the simulated device's script and what the loop did
    \* ---- alsa.c, the simple loop
    pcSimple,       \* position in alsa.c main's loop
    data,           \* its staging buffer
    data_ptr,       \* its pointer, as an offset into data
    data_len,       \* its remaining count
    phaseSimple,    \* its generate_data's static phase
    generatedSimple, \* every frame it generated
    acceptedSimple  \* every frame the device accepted from it

progVars == <<pc, local_data_buffer, local_data_ptr,
              frames_to_write_from_local_buffer, phase,
              frames_available, frames_to_write_this_iter>>
histVars == <<generated, accepted, written, calls, lastCall, fault,
              faultSinceWait, snap, iterCursor, availXrun, lastWrite, lastSelect>>
runVars == <<mode, scenario>>
simpleVars == <<pcSimple, data, data_ptr, data_len, phaseSimple,
                generatedSimple, acceptedSimple>>
vars == <<progVars, histVars, runVars, simpleVars>>

Cursor == <<local_data_ptr, frames_to_write_from_local_buffer>>

InitLoop ==
    /\ pc = "top"
    /\ local_data_buffer = [i \in 1..local_data_buffer_size |-> Garbage]
    /\ local_data_ptr = NullPtr
    /\ frames_to_write_from_local_buffer = 0
    /\ phase = 0
    /\ frames_available = 0
    /\ frames_to_write_this_iter = 0
    /\ generated = <<>>
    /\ accepted = <<>>
    /\ written = 0
    /\ calls = <<>>
    /\ lastCall = [op |-> "none", ret |-> 0]
    /\ fault = "none"
    /\ faultSinceWait = FALSE
    /\ snap = <<>>
    /\ iterCursor = <<NullPtr, 0>>
    /\ availXrun = -1
    /\ lastWrite = <<>>
    /\ lastSelect = "none"

InitSimple ==
    /\ pcSimple = "select"
    /\ data = [i \in 1..data_size |-> Garbage]
    /\ data_ptr = NullPtr
    /\ data_len = 0
    /\ phaseSimple = 0
    /\ generatedSimple = <<>>
    /\ acceptedSimple = <<>>

NoScenario == [avail |-> <<>>, log |-> <<>>]

Init ==
    /\ InitLoop
    /\ InitSimple
    /\ mode = "free"
    /\ scenario = NoScenario

\* ------------------------------------------------------------- history helpers
Log(op, r) ==
    /\ calls' = Append(calls, <<op, r>>)
    /\ lastCall' = [op |-> op, ret |-> r]

Snapshot == [buffer |-> local_data_buffer, ptr |-> local_data_ptr,
             remaining |-> frames_to_write_from_local_buffer]

\* a fault (underrun or suspension) is classified at site f
Classified(f) ==
    /\ fault' = f
    /\ faultSinceWait' = TRUE

CountPrepare ==
    availXrun' = IF availXrun >= 0 /\ availXrun < MaxCount
                 THEN availXrun + 1 ELSE availXrun

\* ------------------------------------------------------------- the device
\* what select() can do: ready, interrupted by a signal, or another failure
SelectResults == IF mode = "scripted" THEN {"ready"} ELSE {"ready", "EINTR", "error"}
ReventsResults == IF mode = "scripted" THEN {"POLLOUT"}
                  ELSE {"POLLOUT", "other", "error"}
StateResults == IF mode = "scripted" THEN {"RUNNING"} ELSE PcmStates
\* the scripted device reports the next value of its script, without faults
AvailOffered == IF mode = "scripted" /\ scenario.avail # <<>>
                THEN {Head(scenario.avail)} ELSE AvailResults
\* the scripted device accepts everything it is asked to
WriteOffered(n) == IF mode = "scripted" THEN {n} ELSE WriteResults(n)

\* the record of a scripted run
Logged(e) == IF mode = "scripted"
             THEN [scenario EXCEPT !.log = Append(@, e)] ELSE scenario
Consumed == IF mode = "scripted" /\ scenario.avail # <<>>
            THEN [scenario EXCEPT !.avail = Tail(@)] ELSE scenario
ConsumedAndLogged(e) ==
    IF mode = "scripted" /\ scenario.avail # <<>>
    THEN [scenario EXCEPT !.avail = Tail(@), !.log = Append(@, e)] ELSE scenario

\* if (ret == -1) { if (errno == EINTR) continue; err(1, "select"); }
AfterSelectNoRetry(out) == IF out = "ready" THEN "revents" ELSE "done"
AfterSelect(out) == CASE out = "ready" -> "revents"
                      [] out = "EINTR" -> "top"
                      [] OTHER -> "done"

\* ------------------------------------------------------------- the loop
\* top of for(;;): refill when the local buffer is empty or fully written
LoopTop ==
    /\ pc = "top"
    /\ IF NeedsRefill(frames_to_write_from_local_buffer)
       THEN /\ mode = "live" \/ Len(generated) < MaxBlocks * local_data_buffer_size
            /\ LET g == generate_data(local_data_buffer, local_data_buffer_size,
                                      rate, phase,
                                      IF mode = "live" THEN 0 ELSE Len(generated))
               IN /\ local_data_buffer' = g.buffer
                  /\ phase' = g.phase
                  /\ generated' = IF mode = "live" THEN g.buffer
                                                  ELSE generated \o g.buffer
            /\ local_data_ptr' = 0
            /\ frames_to_write_from_local_buffer' = local_data_buffer_size
            /\ accepted' = IF mode = "live" THEN <<>> ELSE accepted
            /\ written' = IF mode = "live" THEN 0 ELSE written
            /\ scenario' = Logged(<<"refill">>)
       ELSE UNCHANGED <<local_data_buffer, phase, generated, local_data_ptr,
                        frames_to_write_from_local_buffer, accepted, written,
                        scenario>>
    /\ mode' = IF mode = "scripted" /\ scenario.avail = <<>> THEN "free" ELSE mode
    /\ pc' = "select"
    /\ calls' = <<>>
    /\ fault' = "none"
    /\ iterCursor' = <<local_data_ptr', frames_to_write_from_local_buffer'>>
    /\ UNCHANGED <<frames_available, frames_to_write_this_iter,
                   lastCall, faultSinceWait, snap, availXrun, lastWrite,
                   lastSelect, simpleVars>>

\* select(): ready, interrupted by a signal (retry), or another failure (err)
Select ==
    /\ pc = "select"
    /\ \E out \in SelectResults :
         /\ pc' = AfterSelect(out)
         /\ faultSinceWait' = IF out = "ready" THEN FALSE ELSE faultSinceWait
         /\ lastSelect' = out
    /\ UNCHANGED <<local_data_buffer, local_data_ptr,
                   frames_to_write_from_local_buffer, phase, frames_available,
                   frames_to_write_this_iter, generated, accepted, written, calls,
                   lastCall, fault, snap, iterCursor, availXrun, lastWrite,
                   runVars, simpleVars>>

\* snd_pcm_poll_descriptors_revents and the test of POLLOUT
PollRevents ==
    /\ pc = "revents"
    /\ \E out \in ReventsResults :
         pc' = CASE out = "POLLOUT" -> "state"
                 [] out = "other" -> "top"
                 [] OTHER -> "done"
    /\ UNCHANGED <<local_data_buffer, local_data_ptr,
                   frames_to_write_from_local_buffer, phase, frames_available,
                   frames_to_write_this_iter, histVars, runVars, simpleVars>>

\* snd_pcm_state and the dispatch on XRUN / SUSPENDED
StateQuery ==
    /\ pc = "state"
    /\ \E s \in StateResults :
         /\ Log("state", 0)
         /\ IF s = "XRUN"
            THEN /\ pc' = "prepare_state_xrun"
                 /\ Classified("state_xrun")
                 /\ snap' = IF snap = <<>> THEN <<Snapshot>> ELSE snap
            ELSE IF s = "SUSPENDED"
            THEN /\ pc' = "resume_state"
                 /\ Classified("state_suspended")
                 /\ snap' = IF snap = <<>> THEN <<Snapshot>> ELSE snap
            ELSE /\ pc' = "avail"
                 /\ UNCHANGED <<fault, faultSinceWait, snap>>
    /\ UNCHANGED <<local_data_buffer, local_data_ptr,
                   frames_to_write_from_local_buffer, phase, frames_available,
                   frames_to_write_this_iter, generated, accepted, written,
                   iterCursor, availXrun, lastWrite, lastSelect, runVars,
                   simpleVars>>

\* a prepare whose failure is ignored
DoPrepareIgnoringFailure(here) ==
    /\ pc = here
    /\ \E r \in PrepareResults :
         /\ Log("prepare", r)
         /\ pc' = AfterRecovery
    /\ CountPrepare
    /\ UNCHANGED <<local_data_buffer, local_data_ptr,
                   frames_to_write_from_local_buffer, phase, frames_available,
                   frames_to_write_this_iter, generated, accepted, written,
                   fault, faultSinceWait, snap, iterCursor, lastWrite,
                   lastSelect, runVars, simpleVars>>

\* ret = snd_pcm_prepare(); if (ret < 0) errx(...); continue;
DoPrepare(here) ==
    /\ pc = here
    /\ \E r \in PrepareResults :
         /\ Log("prepare", r)
         /\ pc' = IF r < 0 THEN "done" ELSE AfterRecovery
    /\ CountPrepare
    /\ UNCHANGED <<local_data_buffer, local_data_ptr,
                   frames_to_write_from_local_buffer, phase, frames_available,
                   frames_to_write_this_iter, generated, accepted, written,
                   fault, faultSinceWait, snap, iterCursor, lastWrite,
                   lastSelect, runVars, simpleVars>>

\* ret = snd_pcm_resume(); if (ret < 0 || ret == 0) prepare; continue;
DoResume(here, prep) ==
    /\ pc = here
    /\ \E r \in ResumeResults :
         /\ Log("resume", r)
         /\ pc' = IF ResumeNeedsPrepare(r) THEN prep ELSE AfterRecovery
    /\ UNCHANGED <<local_data_buffer, local_data_ptr,
                   frames_to_write_from_local_buffer, phase, frames_available,
                   frames_to_write_this_iter, generated, accepted, written,
                   fault, faultSinceWait, snap, iterCursor, availXrun, lastWrite,
                   lastSelect, runVars, simpleVars>>

\* a recovery branch that leaves without calling prepare
SkipPrepareAfterAvailXrun ==
    /\ pc = "prepare_avail_xrun"
    /\ pc' = AfterRecovery
    /\ UNCHANGED <<local_data_buffer, local_data_ptr,
                   frames_to_write_from_local_buffer, phase, frames_available,
                   frames_to_write_this_iter, histVars, runVars, simpleVars>>

\* a recovery branch that also rewinds the cursor to the start of the block
RewindAfterWriteiXrun ==
    /\ pc = "prepare_write_xrun"
    /\ \E r \in PrepareResults :
         /\ Log("prepare", r)
         /\ pc' = IF r < 0 THEN "done" ELSE AfterRecovery
    /\ CountPrepare
    /\ local_data_ptr' = 0
    /\ frames_to_write_from_local_buffer' = local_data_buffer_size
    /\ UNCHANGED <<local_data_buffer, phase, frames_available,
                   frames_to_write_this_iter, generated, accepted, written,
                   fault, faultSinceWait, snap, iterCursor, lastWrite,
                   lastSelect, runVars, simpleVars>>

PrepareAfterStateXrun == DoPrepare("prepare_state_xrun")
ResumeAfterStateSuspended == DoResume("resume_state", "prepare_state_suspended")
PrepareAfterStateSuspended == DoPrepare("prepare_state_suspended")
PrepareAfterAvailXrun == DoPrepare("prepare_avail_xrun")
PrepareAfterWriteiXrun == DoPrepare("prepare_write_xrun")
ResumeAfterWriteiSuspended == DoResume("resume_write", "prepare_write_suspended")
PrepareAfterWriteiSuspended == DoPrepare("prepare_write_suspended")

\* snd_pcm_avail_update, its fault handling, and the choice of the request
AvailUpdate ==
    /\ pc = "avail"
    /\ \E r \in AvailOffered :
         /\ Log("avail", r)
         /\ frames_available' = r
         /\ IF r < 0
            THEN /\ UNCHANGED <<frames_to_write_this_iter, scenario>>
                 /\ IF AvailFault(r) = "xrun"
                    THEN /\ pc' = "prepare_avail_xrun"
                         /\ Classified("avail_xrun")
                         /\ snap' = IF snap = <<>> THEN <<Snapshot>> ELSE snap
                         /\ availXrun' = IF availXrun = -1 THEN 0 ELSE availXrun
                    ELSE /\ pc' = "done"
                         /\ fault' = "avail_fatal"
                         /\ UNCHANGED <<faultSinceWait, snap, availXrun>>
            ELSE /\ frames_to_write_this_iter' =
                        FramesToWrite(r, frames_to_write_from_local_buffer)
                 /\ pc' = IF frames_to_write_this_iter' > 0 THEN "write" ELSE "top"
                 /\ scenario' = IF frames_to_write_this_iter' > 0
                                 THEN Consumed ELSE ConsumedAndLogged(<<"no write">>)
                 /\ UNCHANGED <<fault, faultSinceWait, snap, availXrun>>
    /\ UNCHANGED <<local_data_buffer, local_data_ptr,
                   frames_to_write_from_local_buffer, phase, generated, accepted,
                   written, iterCursor, lastWrite, lastSelect, mode, simpleVars>>

\* snd_pcm_writei from local_data_ptr, its fault handling, the cursor update
Writei ==
    /\ pc = "write"
    /\ \E r \in WriteOffered(frames_to_write_this_iter) :
         /\ Log("write", r)
         /\ scenario' = Logged(<<"write", frames_to_write_this_iter>>)
         /\ IF r < 0
            THEN /\ pc' = CASE WriteiFault(r) = "xrun" -> "prepare_write_xrun"
                            [] WriteiFault(r) = "suspended" -> "resume_write"
                            [] OTHER -> "done"
                 /\ IF WriteiFault(r) = "fatal"
                    THEN /\ fault' = "write_fatal"
                         /\ snap' = <<>>
                         /\ UNCHANGED faultSinceWait
                    ELSE /\ Classified(IF WriteiFault(r) = "xrun"
                                       THEN "write_xrun" ELSE "write_suspended")
                         /\ snap' = <<Snapshot>>
                 /\ UNCHANGED <<local_data_ptr, frames_to_write_from_local_buffer,
                                accepted, written, lastWrite>>
            ELSE /\ pc' = "top"
                 /\ accepted' = accepted \o FramesAt(local_data_buffer, local_data_ptr, r)
                 /\ local_data_ptr' =
                        AdvancePtr(local_data_ptr, frames_to_write_this_iter, r)
                 /\ frames_to_write_from_local_buffer' =
                        AdvanceCount(frames_to_write_from_local_buffer,
                                     frames_to_write_this_iter, r)
                 /\ written' = written + (frames_to_write_from_local_buffer
                                          - frames_to_write_from_local_buffer')
                 /\ lastWrite' = <<[off |-> local_data_ptr,
                                    n |-> frames_to_write_this_iter,
                                    ret |-> r,
                                    remaining |-> frames_to_write_from_local_buffer,
                                    afterFault |-> snap # <<>>]>>
                 /\ snap' = <<>>
                 /\ UNCHANGED <<fault, faultSinceWait>>
    /\ availXrun' = -1
    /\ UNCHANGED <<local_data_buffer, phase, frames_available,
                   frames_to_write_this_iter, generated, iterCursor, lastSelect,
                   mode, simpleVars>>

Next ==
    \/ LoopTop
    \/ Select
    \/ PollRevents
    \/ StateQuery
    \/ PrepareAfterStateXrun
    \/ ResumeAfterStateSuspended
    \/ PrepareAfterStateSuspended
    \/ AvailUpdate
    \/ PrepareAfterAvailXrun
    \/ Writei
    \/ PrepareAfterWriteiXrun
    \/ ResumeAfterWriteiSuspended
    \/ PrepareAfterWriteiSuspended

Spec == Init /\ [][Next]_vars

\* a simulated, fault-free device that accepts every request and reports the
\* available-space values 2, 0 and what then remains of the block (2, 0, 2
\* for a capacity of 4); once the script is played the device is free again
InitScenario ==
    /\ InitLoop
    /\ InitSimple
    /\ mode = "scripted"
    /\ scenario = [avail |-> <<2, 0, local_data_buffer_size - 2>>, log |-> <<>>]

SpecScenario == InitScenario /\ [][Next]_vars

\* an unbounded run: the history of frames is kept for the current block only
InitLive ==
    /\ InitLoop
    /\ InitSimple
    /\ mode = "live"
    /\ scenario = NoScenario

\* the process keeps running as long as it has not exited
LiveSpec == InitLive /\ [][Next]_vars /\ WF_vars(Next)

\* ------------------------------------------------------------- alsa.c
\* select(): any failure, EINTR included, is fatal
SimpleSelect ==
    /\ pcSimple = "select"
    /\ \E out \in {"ready", "EINTR", "error"} :
         pcSimple' = IF out = "ready" THEN "revents" ELSE "done"
    /\ UNCHANGED <<data, data_ptr, data_len, phaseSimple, generatedSimple,
                   acceptedSimple, progVars, histVars, runVars>>

\* snd_pcm_poll_descriptors_revents and the test of POLLOUT
SimplePollRevents ==
    /\ pcSimple = "revents"
    /\ \E out \in {"POLLOUT", "other", "error"} :
         pcSimple' = CASE out = "POLLOUT" -> "write"
                       [] out = "other" -> "select"
                       [] OTHER -> "done"
    /\ UNCHANGED <<data, data_ptr, data_len, phaseSimple, generatedSimple,
                   acceptedSimple, progVars, histVars, runVars>>

\* the POLLOUT branch: refill when data_len is 0, write, advance
SimpleWritei ==
    /\ pcSimple = "write"
    /\ data_len = 0 => Len(generatedSimple) < MaxBlocks * data_size
    /\ LET refill == data_len = 0
           g == generate_data_simple(data, data_size, rate, phaseSimple,
                                     Len(generatedSimple))
           buf == IF refill THEN g.buffer ELSE data
           ptr == IF refill THEN 0 ELSE data_ptr
           len == IF refill THEN data_size ELSE data_len
       IN /\ data' = buf
          /\ phaseSimple' = IF refill THEN g.phase ELSE phaseSimple
          /\ generatedSimple' = IF refill THEN generatedSimple \o g.buffer
                                          ELSE generatedSimple
          /\ \E r \in WriteResults(len) :
               IF r < 0
               THEN /\ pcSimple' = "done"
                    /\ data_ptr' = ptr
                    /\ data_len' = len
                    /\ UNCHANGED acceptedSimple
               ELSE /\ pcSimple' = "select"
                    /\ acceptedSimple' =
                         acceptedSimple \o FramesAt(buf, SimpleWriteOffset(ptr), r)
                    /\ data_ptr' = ptr + r
                    /\ data_len' = len - r
    /\ UNCHANGED <<progVars, histVars, runVars>>

NextSimple ==
    \/ SimpleSelect
    \/ SimplePollRevents
    \/ SimpleWritei

SpecSimple == Init /\ [][NextSimple]_vars

TypeOK ==
    /\ pc \in {"top", "select", "revents", "state", "avail", "write", "done",
               "prepare_state_xrun", "resume_state", "prepare_state_suspended",
               "prepare_avail_xrun", "prepare_write_xrun", "resume_write",
               "prepare_write_suspended"}
    /\ Len(local_data_buffer) = local_data_buffer_size
    /\ phase \in 0..(rate - 1)

\* ------------------------------------------------------------- properties
IsPrefix(s, t) == Len(s) <= Len(t) /\ \A i \in 1..Len(s) : s[i] = t[i]
Min(a, b) == IF a < b THEN a ELSE b
Ops(cs) == [i \in DOMAIN cs |-> cs[i][1]]
Count(cs, op) == Cardinality({i \in DOMAIN cs : cs[i][1] = op})
IterationEnded == pc \in {"top", "done"}
PrepareSites == {"prepare_state_xrun", "prepare_state_suspended",
                 "prepare_avail_xrun", "prepare_write_xrun",
                 "prepare_write_suspended"}

\* C1: the frames the device accepted, in acceptance order, are always a
\* prefix of the frames generated, in generation order: none skipped,
\* repeated or reordered, also across a fault recovery and across a refill.
C1_AcceptedIsPrefixOfGenerated == IsPrefix(accepted, generated)

\* a write accepted frames of the second block right after a recovery
C1_Witness ==
    /\ Len(accepted) > local_data_buffer_size
    /\ lastCall.op = "write"
    /\ lastCall.ret > 0
    /\ lastWrite # <<>>
    /\ lastWrite[1].afterFault

\* C2: 0 <= remaining count <= capacity in every state, and the frames
\* counted as written never exceed the frames generated.
C2_CursorBounds ==
    /\ 0 <= frames_to_write_from_local_buffer
    /\ frames_to_write_from_local_buffer <= local_data_buffer_size
    /\ written <= Len(generated)

\* everything generated has been written, the last write a clamped request
\* in the middle of the block
C2_Witness ==
    /\ frames_to_write_from_local_buffer = 0
    /\ written = MaxBlocks * local_data_buffer_size
    /\ lastWrite # <<>>
    /\ lastWrite[1].off > 0
    /\ frames_available > lastWrite[1].n

\* the state right after a write call returned a count
JustWrote == pc = "top" /\ lastCall.op = "write" /\ lastCall.ret >= 0 /\ calls # <<>>

\* the cursor moved by the accepted count, not by the requested count
C3_AdvanceByAccepted ==
    JustWrote =>
        /\ lastWrite # <<>>
        /\ lastWrite[1].ret = lastCall.ret
        /\ local_data_ptr = lastWrite[1].off + lastCall.ret
        /\ frames_to_write_from_local_buffer = lastWrite[1].remaining - lastCall.ret

\* a write that accepted nothing: no termination, the wait comes next
C3_ZeroAccepted ==
    /\ pc = "write" /\ lastCall'.op = "write" /\ lastCall'.ret = 0
         => pc' = "top" /\ Cursor' = Cursor
    /\ pc = "top" /\ frames_to_write_from_local_buffer > 0
         => pc' = "select" /\ Cursor' = Cursor

\* C3 (as stated): a write that returns r of n requested frames moves the
\* offset up by r and the remaining count down by r, the next write request
\* starts at that advanced offset, and r = 0 changes nothing and does not
\* terminate the loop.
C3_NextWriteAtAdvancedOffset ==
    /\ C3_AdvanceByAccepted
    /\ (pc = "write" /\ lastWrite # <<>>
          => local_data_ptr = lastWrite[1].off + lastWrite[1].ret)

\* C3 (amended): as above, but the next write request starts at the advanced
\* offset only when the write left frames pending; after a write that drained
\* the buffer the refill resets the offset and the next request starts at 0.
C3_ShortWrite ==
    /\ [](/\ C3_AdvanceByAccepted
          /\ (pc = "write" /\ lastWrite # <<>>
                => local_data_ptr =
                     IF lastWrite[1].ret < lastWrite[1].remaining
                     THEN lastWrite[1].off + lastWrite[1].ret
                     ELSE 0))
    /\ [][C3_ZeroAccepted]_vars

\* a second write is requested after a short write of the same block, with
\* a recovery in between
C3_Witness ==
    /\ pc = "write"
    /\ lastWrite # <<>>
    /\ lastWrite[1].ret > 0
    /\ lastWrite[1].ret < lastWrite[1].n
    /\ snap # <<>>

\* C4 (as stated): after the space query reports Underrun, prepare is called
\* exactly once before the next write call, and the cursor at the end of that
\* iteration (wait, query, write, advance) equals the cursor at its start.
C4_PrepareExactlyOnce ==
    /\ (pc = "write" /\ availXrun >= 0 => availXrun = 1)
    /\ (fault = "avail_xrun" /\ IterationEnded => Cursor = iterCursor)

\* C4 (amended): the iteration in which the space query reports Underrun
\* calls prepare exactly once, as its last device call, and no write; at
\* least one prepare call precedes the next write (more when a later
\* iteration classifies a further fault first); the cursor at the end of the
\* iteration is the cursor with which its readiness wait began.
C4_UnderrunAtAvail ==
    /\ (pc = "write" /\ availXrun >= 0 => availXrun >= 1)
    /\ (fault = "avail_xrun" /\ pc = "prepare_avail_xrun"
          => /\ Ops(calls) = <<"state", "avail">>
             /\ Cursor = iterCursor)
    /\ (fault = "avail_xrun" /\ IterationEnded
          => /\ Ops(calls) = <<"state", "avail", "prepare">>
             /\ Cursor = iterCursor)

\* the write that follows an underrun reported by the space query
C4_Witness ==
    /\ pc = "write"
    /\ availXrun = 1
    /\ local_data_ptr > 0

\* C5: at both places where Suspended is handled, when resume returns 0
\* ("not possible") the next device call of that iteration is prepare, and no
\* write (nor space query) is made between them or before the next wait.
C5_ResumeNotPossibleThenPrepare ==
    \A i \in DOMAIN calls :
        calls[i] = <<"resume", 0>> =>
            /\ fault \in {"state_suspended", "write_suspended"}
            /\ \/ i = Len(calls) /\ pc = (IF fault = "state_suspended"
                                          THEN "prepare_state_suspended"
                                          ELSE "prepare_write_suspended")
               \/ /\ i + 1 = Len(calls)
                  /\ calls[i + 1][1] = "prepare"
                  /\ IterationEnded
                  /\ (pc = "done" <=> calls[i + 1][2] < 0)

\* resume "not possible", then a successful prepare, after a suspended write
C5_Witness ==
    /\ pc = "top"
    /\ fault = "write_suspended"
    /\ Len(calls) = 5
    /\ calls[4] = <<"resume", 0>>
    /\ calls[5] = <<"prepare", 0>>

Unclassified(r) == r < 0 /\ r # -EPIPE /\ r # -ESTRPIPE

\* C6 (as stated): a negative code other than Underrun and Suspended from
\* the space query, write, prepare or resume terminates the loop.
C6_UnclassifiedIsFatal ==
    lastCall.op \in {"avail", "write", "prepare", "resume"}
        /\ Unclassified(lastCall.ret) => pc = "done"

\* C6 (amended): such a code from the space query, write or prepare terminates
\* the loop, and nothing runs after termination; a negative code from resume
\* does not: the loop goes on to call prepare.
C6_FatalPropagation ==
    /\ [](/\ lastCall.op \in {"avail", "write", "prepare"}
               /\ Unclassified(lastCall.ret) => pc = "done"
          /\ lastCall.op = "resume" /\ lastCall.ret < 0
               => pc \in {"prepare_state_suspended", "prepare_write_suspended"})
    /\ [][pc # "done"]_vars

\* the loop stopped on an unclassified code from the write call
C6_Witness ==
    /\ pc = "done"
    /\ lastCall = [op |-> "write", ret |-> -EBADFD]
    /\ Ops(calls) = <<"state", "avail", "write">>

\* what the write call site does after fault code c: the device calls that
\* follow it in the iteration, and whether the loop terminates
RecoveryOf(c, tail, terminated) ==
    IF c = -EPIPE
    THEN /\ Len(tail) = 1
         /\ tail[1][1] = "prepare"
         /\ (terminated <=> tail[1][2] < 0)
    ELSE /\ Len(tail) >= 1
         /\ tail[1][1] = "resume"
         /\ IF tail[1][2] > 0
            THEN Len(tail) = 1 /\ ~terminated
            ELSE /\ Len(tail) = 2
                 /\ tail[2][1] = "prepare"
                 /\ (terminated <=> tail[2][2] < 0)

\* C7: an Underrun or Suspended code is handled the same way whether the
\* space query or the write call returned it: the same recovery calls, the
\* same continuation; Suspended from the space query does not terminate.
C7_SameHandlingAtBothSites ==
    IterationEnded =>
        \A i \in DOMAIN calls :
            calls[i][1] \in {"avail", "write"} /\ calls[i][2] \in {-EPIPE, -ESTRPIPE}
                => RecoveryOf(calls[i][2], SubSeq(calls, i + 1, Len(calls)),
                              pc = "done")

\* the index in calls of the call that classified this iteration's fault
FaultIdx == CASE fault \in {"state_xrun", "state_suspended"} -> 1
              [] fault = "avail_xrun" -> 2
              [] OTHER -> 3

\* C8: in an iteration that classified a fault only prepare and resume calls
\* follow the classification; a state query that is not Normal is followed
\* by neither the space query nor a write; and the space query and the write
\* are reached only when a readiness wait has returned since the last fault.
C8_NoWriteInFaultIteration ==
    /\ fault \in {"state_xrun", "state_suspended", "avail_xrun",
                  "write_xrun", "write_suspended"}
         => /\ Len(calls) >= FaultIdx
            /\ \A j \in DOMAIN calls :
                   j > FaultIdx => calls[j][1] \in {"prepare", "resume"}
            /\ pc \notin {"avail", "write"}
    /\ fault \in {"state_xrun", "state_suspended"}
         => \A j \in DOMAIN calls : calls[j][1] \notin {"avail", "write"}
    /\ pc \in {"avail", "write"} => ~faultSinceWait /\ fault = "none"

\* a write is reached in a later iteration than the one that classified a fault
C8_Witness ==
    /\ pc = "write"
    /\ snap # <<>>
    /\ Ops(calls) = <<"state", "avail">>

\* C9: with a non-negative available space the request is
\* min(available space, remaining count); a write is issued exactly when
\* that is positive, never for more than the space reported; with 0 available
\* there is no write, no cursor change and no termination.
C9_RequestIsMin ==
    /\ pc = "write"
         => /\ calls # <<>>
            /\ calls[Len(calls)] = <<"avail", frames_available>>
            /\ frames_to_write_this_iter > 0
            /\ frames_to_write_this_iter <= frames_available
            /\ frames_to_write_this_iter =
                 Min(frames_available, frames_to_write_from_local_buffer)
    /\ calls # <<>> /\ calls[Len(calls)][1] = "avail" /\ calls[Len(calls)][2] >= 0
         => /\ pc \in {"write", "top"}
            /\ (pc = "write"
                  <=> Min(calls[Len(calls)][2], frames_to_write_from_local_buffer) > 0)
            /\ (calls[Len(calls)][2] = 0 => pc = "top" /\ Cursor = iterCursor)

\* the device reported more space than frames are pending, in the middle of
\* a block
C9_Witness ==
    /\ pc = "write"
    /\ frames_available > frames_to_write_from_local_buffer
    /\ local_data_ptr > 0

\* a space query that reported no space, in the middle of a block
C9_WitnessZero ==
    /\ pc = "top"
    /\ calls # <<>>
    /\ calls[Len(calls)] = <<"avail", 0>>
    /\ local_data_ptr > 0

\* C10: from the classification of a fault until the next write call the
\* staging buffer, the offset and the remaining count do not change (no
\* refill, no rewind), so that write starts at the frame where the faulting
\* iteration stood.
C10_RecoveryKeepsCursor ==
    snap # <<>> =>
        /\ snap[1].buffer = local_data_buffer
        /\ snap[1].ptr = local_data_ptr
        /\ snap[1].remaining = frames_to_write_from_local_buffer
        /\ frames_to_write_from_local_buffer > 0

\* the write after a recovery from a faulted write, in the middle of a block
C10_Witness ==
    /\ pc = "write"
    /\ snap # <<>>
    /\ local_data_ptr > 0
    /\ lastCall.op = "avail"
    /\ lastWrite # <<>>
    /\ snap[1].ptr = lastWrite[1].off + lastWrite[1].ret

\* C11: a select interrupted by a signal (EINTR) does not terminate the
\* loop: no device call, no generator call, buffer and cursor unchanged, and
\* the loop waits again; any other failure of select terminates the loop.
C11_EintrRetry ==
    [][/\ pc = "select" /\ lastSelect' = "EINTR"
            => /\ pc' = "top"
               /\ UNCHANGED <<local_data_buffer, local_data_ptr,
                              frames_to_write_from_local_buffer, generated,
                              phase, calls, lastCall>>
       /\ pc = "top" /\ lastSelect = "EINTR"
            => /\ pc' = "select"
               /\ calls' = <<>>
               /\ UNCHANGED <<local_data_buffer, local_data_ptr,
                              frames_to_write_from_local_buffer, generated,
                              phase, lastCall>>
       /\ pc = "select" /\ lastSelect' = "error" => pc' = "done"]_vars

\* the wait was interrupted in the middle of a block
C11_Witness ==
    /\ pc = "select"
    /\ lastSelect = "EINTR"
    /\ local_data_ptr > 0
    /\ frames_to_write_from_local_buffer > 0

\* what the loop does with the scripted device
ScenarioExpected ==
    << <<"refill">>, <<"write", 2>>, <<"no write">>,
       <<"write", local_data_buffer_size - 2>>, <<"refill">> >>

\* C12: the generator runs exactly when an iteration starts with a remaining
\* count of 0, produces capacity frames and sets the cursor to (0, capacity);
\* no write is attempted with a remaining count of 0; and with the scripted
\* device (available space 2, 0, 2 for capacity 4, everything accepted) the
\* loop does refill, write(2), no write, write(2), refill.
C12_RefillWhenEmpty ==
    /\ [][/\ generated' # generated
               => /\ pc = "top"
                  /\ frames_to_write_from_local_buffer = 0
                  /\ Len(generated') = Len(generated) + local_data_buffer_size
                  /\ Cursor' = <<0, local_data_buffer_size>>
          /\ pc = "top"
               => (frames_to_write_from_local_buffer = 0 <=> generated' # generated)
         ]_vars
    /\ [](/\ pc = "write" => frames_to_write_from_local_buffer > 0
          /\ IsPrefix(scenario.log, ScenarioExpected)
          /\ mode = "free" => scenario.log = ScenarioExpected
          /\ mode = "scripted" /\ Len(scenario.log) \in {2, 3} /\ pc = "top"
               => Cursor = <<2, local_data_buffer_size - 2>>)

\* the script has been played to its end: the second refill was made
C12_Witness ==
    /\ mode = "free"
    /\ pc = "select"
    /\ scenario.log = ScenarioExpected
    /\ Len(generated) = 2 * local_data_buffer_size
    /\ accepted = SubSeq(generated, 1, local_data_buffer_size)

\* C13: the phase stays in 0..rate-1 after every sample, a call producing k
\* samples moves it to (phase + k) mod rate, only generate_data changes it,
\* and the k-th sample generated was computed from phase (k mod rate): the
\* blocks are phase-continuous.
C13_PhaseContinuity ==
    /\ [](/\ phase \in 0..(rate - 1)
          /\ phase = Len(generated) % rate
          /\ \A i \in 1..Len(generated) :
                 /\ generated[i].ph = (i - 1) % rate
                 /\ generated[i].id = i - 1)
    /\ [][/\ phase' # phase => generated' # generated
          /\ generated' # generated
               => phase' = (phase + local_data_buffer_size) % rate]_vars

\* a second block that starts in the middle of a period of the phase
C13_Witness ==
    /\ Len(generated) = 2 * local_data_buffer_size
    /\ generated[local_data_buffer_size + 1].ph # 0
    /\ generated[local_data_buffer_size].ph + 1 = generated[local_data_buffer_size + 1].ph
    /\ \E i \in 2..Len(generated) : generated[i].ph = 0

ClassifiedFaults == {"state_xrun", "state_suspended", "avail_xrun",
                     "write_xrun", "write_suspended"}

\* C14: an iteration that classified a fault continues (back to Normal) only
\* when its last recovery call reported success; a prepare that fails ends
\* the loop; and after the loop ended nothing runs any more.
C14_RecoveryStateMachine ==
    /\ [](/\ fault \in ClassifiedFaults /\ pc = "top"
               => /\ calls # <<>>
                  /\ \/ calls[Len(calls)][1] = "prepare" /\ calls[Len(calls)][2] >= 0
                     \/ calls[Len(calls)][1] = "resume" /\ calls[Len(calls)][2] > 0
          /\ lastCall.op = "prepare" /\ lastCall.ret < 0
               => pc = "done" /\ fault \in ClassifiedFaults)
    /\ [][pc # "done" /\ (fault \in ClassifiedFaults /\ pc' = "top"
                            => lastCall'.op \in {"prepare", "resume"})]_vars

\* the prepare after a suspended write failed
C14_Witness ==
    /\ pc = "done"
    /\ fault = "write_suspended"
    /\ lastCall.op = "prepare"
    /\ lastCall.ret < 0
    /\ local_data_ptr > 0

SuspendedFaults == {"state_suspended", "write_suspended"}

\* C15 (as stated): in a Suspended recovery a resume that reports success is
\* followed by no prepare call, and prepare is called only after resume
\* reported "not possible" (0).
C15_PrepareOnlyWhenNotPossible ==
    fault \in SuspendedFaults =>
        \A i \in DOMAIN calls :
            /\ calls[i][1] = "resume" /\ calls[i][2] > 0
                 => i = Len(calls) /\ pc = "top"
            /\ calls[i][1] = "prepare"
                 => i > 1 /\ calls[i - 1] = <<"resume", 0>>

\* C15 (amended): a resume that reports success is followed by no prepare
\* call; prepare is called exactly after a resume that reported "not
\* possible" (0) or that failed (a negative code).
C15_PrepareUnlessResumed ==
    fault \in SuspendedFaults =>
        \A i \in DOMAIN calls :
            /\ calls[i][1] = "resume" /\ calls[i][2] > 0
                 => i = Len(calls) /\ pc = "top"
            /\ calls[i][1] = "resume" /\ calls[i][2] <= 0
                 => \/ i = Len(calls) /\ pc \in PrepareSites
                    \/ i < Len(calls) /\ calls[i + 1][1] = "prepare"
            /\ calls[i][1] = "prepare"
                 => i > 1 /\ calls[i - 1][1] = "resume" /\ calls[i - 1][2] <= 0

\* a resume that succeeded ended the iteration of a suspended write
C15_Witness ==
    /\ fault = "write_suspended"
    /\ pc = "top"
    /\ calls # <<>>
    /\ calls[Len(calls)] = <<"resume", 1>>

\* C16: in alsa.c a write after a short write starts at the first unwritten
\* frame (offset = capacity - remaining count), so the device receives the
\* generated frames in generation order, none repeated.
C16_SimpleWriteResumes ==
    /\ pcSimple = "write" /\ data_len > 0
         => SimpleWriteOffset(data_ptr) = data_size - data_len
    /\ IsPrefix(acceptedSimple, generatedSimple)

\* C17: once the buffer has been filled, offset + remaining count = capacity,
\* and a write request never reaches past the end of the buffer.
C17_CursorInsideBuffer ==
    /\ generated # <<>>
         => /\ local_data_ptr >= 0
            /\ local_data_ptr + frames_to_write_from_local_buffer
                 = local_data_buffer_size
    /\ pc = "write"
         => /\ generated # <<>>
            /\ local_data_ptr + frames_to_write_this_iter <= local_data_buffer_size

\* a request that ends exactly at the end of the buffer, from its middle
C17_Witness ==
    /\ pc = "write"
    /\ local_data_ptr > 0
    /\ local_data_ptr + frames_to_write_this_iter = local_data_buffer_size

\* the device reports a positive available space
AvailPositive == pc = "avail" /\ lastCall'.op = "avail" /\ lastCall'.ret > 0
\* the loop calls write
WriteAttempt == pc = "write" /\ lastCall'.op = "write"
\* the device accepts at least one frame
WriteAccepts == WriteAttempt /\ lastCall'.ret >= 1
\* the staging buffer is refilled
Refill == /\ pc = "top"
          /\ frames_to_write_from_local_buffer = 0
          /\ frames_to_write_from_local_buffer' = local_data_buffer_size

\* C18: if no fatal outcome occurs, the device reports a positive available
\* space infinitely often, and a device that is written to infinitely often
\* accepts at least one frame infinitely often, then every staged block is
\* eventually accepted in full and the buffer is refilled infinitely often.
C18_Progress ==
    (/\ [](pc # "done")
     /\ []<><<AvailPositive>>_vars
     /\ ([]<><<WriteAttempt>>_vars => []<><<WriteAccepts>>_vars))
    => /\ []<><<Refill>>_vars
       /\ (frames_to_write_from_local_buffer > 0
             ~> (frames_to_write_from_local_buffer = 0 /\ accepted = generated))

\* a later block is staged after a recovery, in an unbounded run
C18_Witness ==
    /\ mode = "live"
    /\ pc = "write"
    /\ lastWrite # <<>>
    /\ lastWrite[1].ret = lastWrite[1].remaining
    /\ snap # <<>>
    /\ accepted = <<>>

====
